---------------------------- MODULE Spec2Model ----------------------------
(***************************************************************************)
(* A model of nicois/bigset: named sets of JSON-encodable values kept in   *)
(* sqlite tables (k BLOB UNIQUE, v BLOB), one table per set.               *)
(*                                                                         *)
(* The model follows src/unnamed/part_002, the revision of bigset.go that  *)
(* has Refresh, All and the ON CONFLICT clauses (go.mod's go 1.23 is the   *)
(* toolchain its "iter" import needs).                                     *)
(*                                                                         *)
(* Every SQL statement the code sends is modelled by what sqlite does with *)
(* its text: a statement is atomic, each statement outside a transaction   *)
(* commits on its own, and the code opens no transaction.                  *)
(***************************************************************************)
EXTENDS Integers, Sequences, FiniteSets, TLC

(***************************************************************************)
(* Bounds of the model.                                                    *)
(***************************************************************************)
\* longest element batch passed to Add / Supersede / Refresh / Discard
MaxElems == 2
\* longest source list passed to Union / Intersection / Subtract
MaxSources == 2
\* the backing-store call of one operation (1..MaxFault) that may fail
MaxFault == 3
\* the visitor call of one Each (1..MaxVisits) that may return an error
MaxVisits == 2

\* the modulus of the test's key function: fmt.Sprintf("%v", (*i)%10)
KeyMod == 10

\* an element json.Marshal rejects (a NaN float, a channel, ...)
NaN == -1

\* the elements callers pass: two encodable values, which share a key under
\* the key function and differ under IdentityMapper, and the unencodable one
GoodElems == {1, 11}
Elems == GoodElems \cup {NaN}

Quote == "\""

\* set names, as sequences of characters; the last one holds a double quote
ValidNames == {<<"t">>, <<"a">>, <<"b">>}
BadNames == {<<"a", Quote>>}
Names == ValidNames \cup BadNames

RECURSIVE SeqsUpTo(_, _)
SeqsUpTo(S, n) ==
    IF n = 0 THEN {<<>>}
    ELSE LET shorter == SeqsUpTo(S, n - 1)
         IN  shorter \cup {Append(s, x) : s \in {q \in shorter : Len(q) = n - 1}, x \in S}

ElemSeqs == SeqsUpTo(Elems, MaxElems)
SourceSeqs == SeqsUpTo(Names, MaxSources)
Faults == 0..MaxFault
VisitFaults == 0..MaxVisits

(***************************************************************************)
(* The state.                                                              *)
(***************************************************************************)
VARIABLES
    dbTables,   \* the file: the names that have a table
    dbRows,     \* the file: each table's rows, a set of [k, v]
    fileExists, \* the sqlite file is on disk
    open,       \* b.db is an open handle (between Create and Close)
    names,      \* b.names, the cache of initialised set names
    mapper,     \* b.mapper: "identity" (IdentityMapper) or "keyfn" (WithKeyFunction)
    keepFile,   \* b.keepFile (WithFilename was given)
    last,       \* the call that has just returned, with what it returned
    conc,       \* the calls in progress on two goroutines, each with its position
    scan        \* an All iteration in progress beside other callers

vars == <<dbTables, dbRows, fileExists, open, names, mapper, keepFile, last, conc, scan>>

(***************************************************************************)
(* Encoding: json.Marshal of a number is its decimal text, json.Unmarshal  *)
(* reads it back.  Byte strings are sequences of digits.                   *)
(***************************************************************************)
RECURSIVE Marshal(_)
Marshal(n) == IF n < 10 THEN <<n>> ELSE Marshal(n \div 10) \o <<n % 10>>

RECURSIVE UnmarshalFrom(_, _)
UnmarshalFrom(bytes, acc) ==
    IF bytes = <<>> THEN acc
    ELSE UnmarshalFrom(Tail(bytes), acc * 10 + Head(bytes))

Unmarshal(bytes) == UnmarshalFrom(bytes, 0)

IdentityMapper(e) ==
    IF e = NaN THEN [k |-> <<>>, v |-> <<>>, err |-> TRUE]
    ELSE [k |-> Marshal(e), v |-> Marshal(e), err |-> FALSE]

\* the key function of TestKeyFunction
KeyFunction(e) == Marshal(e % KeyMod)

WithKeyFunctionMapper(e) ==
    LET id == IdentityMapper(e)
    IN  IF id.err THEN [k |-> <<>>, v |-> <<>>, err |-> TRUE]
        ELSE [k |-> KeyFunction(e), v |-> id.v, err |-> FALSE]

\* b.mapper(&value)
Mapper(e) == IF mapper = "identity" THEN IdentityMapper(e) ELSE WithKeyFunctionMapper(e)

(***************************************************************************)
(* verifyNames: strings.Contains(name, "\"") on the first name and on each *)
(* of the others.                                                          *)
(***************************************************************************)
ContainsQuote(name) == \E i \in 1..Len(name) : name[i] = Quote

verifyNamesFirstOnly(name, others) == ContainsQuote(name)

verifyNamesOthersOnly(name, others) == \E i \in 1..Len(others) : ContainsQuote(others[i])

\* TRUE when verifyNames returns an error
verifyNames(name, others) ==
    \/ ContainsQuote(name)
    \/ \E i \in 1..Len(others) : ContainsQuote(others[i])

(***************************************************************************)
(* One statement on one table.  A table is a set of rows [k, v]; each      *)
(* result is the table afterwards and the rows affected.                   *)
(***************************************************************************)
\* keys are non-nil byte strings, as every mapper of the source produces
Row(k, v) == [k |-> k, v |-> v]
Keys(T) == {r.k : r \in T}
HasKey(T, k) == \E r \in T : r.k = k

InsertBlind(T, k, v) == [t |-> T \cup {Row(k, v)}, ra |-> 1]

InsertOrReplace(T, k, v) ==
    [t |-> {r \in T : r.k # k} \cup {Row(k, v)}, ra |-> IF HasKey(T, k) THEN 0 ELSE 1]

\* INSERT INTO t(k, v) VALUES (?, ?) ON CONFLICT (k) DO NOTHING
InsertOrIgnore(T, k, v) ==
    IF HasKey(T, k) THEN [t |-> T, ra |-> 0]
    ELSE [t |-> T \cup {Row(k, v)}, ra |-> 1]

UpsertKeepOld(T, k, v) ==
    IF HasKey(T, k) THEN [t |-> T, ra |-> 1]
    ELSE [t |-> T \cup {Row(k, v)}, ra |-> 1]

UpsertCountingChanges(T, k, v) ==
    IF Row(k, v) \in T THEN [t |-> T, ra |-> 0]
    ELSE [t |-> {r \in T : r.k # k} \cup {Row(k, v)}, ra |-> 1]

\* INSERT INTO t(k, v) VALUES (?, ?) ON CONFLICT (k) DO UPDATE SET v=excluded.v
Upsert(T, k, v) ==
    IF HasKey(T, k)
    THEN [t |-> {IF r.k = k THEN Row(r.k, v) ELSE r : r \in T}, ra |-> 1]
    ELSE [t |-> T \cup {Row(k, v)}, ra |-> 1]

UpdateOrInsert(T, k, v) ==
    [t |-> {r \in T : r.k # k} \cup {Row(k, v)}, ra |-> 1]

\* WITH x AS (SELECT k, v FROM t WHERE k = ?) UPDATE t SET v = ? FROM x WHERE t.k = x.k
UpdateIfPresent(T, k, v) ==
    [t  |-> {IF r.k = k THEN Row(r.k, v) ELSE r : r \in T},
     ra |-> Cardinality({r \in T : r.k = k})]

DeleteKeyKeepRow(T, k) == [t |-> T, ra |-> Cardinality({r \in T : r.k = k})]

\* DELETE FROM t WHERE k = ?
DeleteKey(T, k) ==
    [t |-> {r \in T : r.k # k}, ra |-> Cardinality({r \in T : r.k = k})]

\* the statement add() or Discard() has prepared, executed with (k, v)
Exec(kind, T, k, v) ==
    CASE kind = "Add"       -> InsertOrIgnore(T, k, v)
      [] kind = "Supersede" -> Upsert(T, k, v)
      [] kind = "Refresh"   -> UpdateIfPresent(T, k, v)
      [] kind = "Discard"   -> DeleteKey(T, k)

(***************************************************************************)
(* The loop of add() and of Discard(): for each value, the mapper, then    *)
(* the prepared statement, then RowsAffected.  `done` counts the calls to  *)
(* the backing store made so far; the call numbered `fault` fails.  An     *)
(* error returns at once: the statements already executed stay executed.   *)
(***************************************************************************)
RECURSIVE ExecLoop(_, _, _, _, _, _, _)
ExecLoop(kind, T, values, i, result, done, fault) ==
    IF i > Len(values)
    THEN [t |-> T, count |-> result, err |-> FALSE, stmts |-> done, faulted |-> FALSE]
    ELSE LET m == Mapper(values[i])
         IN  IF m.err
             THEN [t |-> T, count |-> -1, err |-> TRUE, stmts |-> done, faulted |-> FALSE]
             ELSE IF fault = done + 1
             THEN [t |-> T, count |-> -1, err |-> TRUE, stmts |-> done + 1, faulted |-> TRUE]
             ELSE LET e == Exec(kind, T, m.k, m.v)
                  IN  ExecLoop(kind, e.t, values, i + 1, result + e.ra, done + 1, fault)

(***************************************************************************)
(* The statements of Union, Intersection and Subtract.                     *)
(***************************************************************************)
SourcesOf(source) == {source[i] : i \in 1..Len(source)}

\* SELECT k, v FROM s1 WHERE true UNION SELECT k, v FROM s2 WHERE true ...
SelectUnion(rows, source) == UNION {rows[s] : s \in SourcesOf(source)}

\* SELECT k, s1.v FROM s1 INNER JOIN s2 USING (k) ...
SelectJoin(rows, source) ==
    {r \in rows[source[1]] : \A i \in 2..Len(source) : HasKey(rows[source[i]], r.k)}

InsertSelectNoUniqueIndex(T, selected) ==
    {[t |-> T \cup selected, count |-> Cardinality(selected \ T), err |-> FALSE]}

\* INSERT INTO t SELECT ... ON CONFLICT (k) DO NOTHING: the selected rows are
\* inserted one by one in an order SQL leaves open; a row whose key is in the
\* table by then is skipped.  Every outcome: one selected row for each new key.
InsertSelect(T, selected) ==
    {[t |-> T \cup ins, count |-> Cardinality(ins), err |-> FALSE] :
        ins \in {S \in SUBSET selected :
                    /\ Keys(S) = Keys(selected) \ Keys(T)
                    /\ Cardinality(S) = Cardinality(Keys(S))}}

StatementFails(T) == {[t |-> T, count |-> -1, err |-> TRUE]}

\* the statement without its ON CONFLICT clause, as src/bigset.go builds it: a
\* selected key that is in the target fails the UNIQUE constraint
UnionStatementNoConflictClause(tables, rows, target, source) ==
    IF \/ \E s \in SourcesOf(source) : s \notin tables
       \/ Keys(SelectUnion(rows, source)) \cap Keys(rows[target]) # {}
    THEN StatementFails(rows[target])
    ELSE InsertSelect(rows[target], SelectUnion(rows, source))

UnionStatementFirstSourceOnly(tables, rows, target, source) ==
    IF \E s \in SourcesOf(source) : s \notin tables
    THEN StatementFails(rows[target])
    ELSE InsertSelect(rows[target], rows[source[1]])

\* what apply() returns for Union's statement; a source without a table is
\* "no such table"
UnionStatement(tables, rows, target, source) ==
    IF \E s \in SourcesOf(source) : s \notin tables
    THEN StatementFails(rows[target])
    ELSE InsertSelect(rows[target], SelectUnion(rows, source))

\* what apply() returns for Intersection's statement.  Its SELECT has no
\* WHERE clause: with one source, "FROM s1 ON CONFLICT ..." is read as a
\* join constraint and the statement is a syntax error; a first source named
\* again makes "s1".v an ambiguous column.
IntersectionStatement(tables, rows, target, source) ==
    IF \/ Len(source) = 1
       \/ \E i \in 2..Len(source) : source[i] = source[1]
       \/ \E s \in SourcesOf(source) : s \notin tables
    THEN StatementFails(rows[target])
    ELSE InsertSelect(rows[target], SelectJoin(rows, source))

DeleteInCountingSourceKeys(T, S) ==
    [t |-> {r \in T : r.k \notin Keys(S)}, ra |-> Cardinality(Keys(S))]

\* DELETE FROM t WHERE k IN (SELECT k FROM s)
DeleteIn(T, S) ==
    [t |-> {r \in T : r.k \notin Keys(S)}, ra |-> Cardinality({r \in T : r.k \in Keys(S)})]

\* Subtract's loop: one DELETE per source, each its own apply(); an error
\* returns at once
RECURSIVE SubtractLoop(_, _, _, _, _, _, _, _, _)
SubtractLoop(tables, rows, target, T, source, i, result, done, fault) ==
    IF i > Len(source)
    THEN [t |-> T, count |-> result, err |-> FALSE, stmts |-> done, faulted |-> FALSE]
    ELSE IF fault = done + 1
    THEN [t |-> T, count |-> -1, err |-> TRUE, stmts |-> done + 1, faulted |-> TRUE]
    ELSE IF source[i] \notin tables
    THEN [t |-> T, count |-> -1, err |-> TRUE, stmts |-> done + 1, faulted |-> FALSE]
    ELSE LET S == IF source[i] = target THEN T ELSE rows[source[i]]
             d == DeleteIn(T, S)
         IN  SubtractLoop(tables, rows, target, d.t, source, i + 1,
                          result + d.ra, done + 1, fault)

SelectIgnoringKey(T, k) == {r.v : r \in T}

\* SELECT v FROM t WHERE k = ?
SelectByKey(T, k) == {r.v : r \in {x \in T : x.k = k}}

(***************************************************************************)
(* The record of a call: what was asked, what came back, and the file and  *)
(* the cache as they were when the call began.                             *)
(***************************************************************************)
NoCall ==
    [op |-> "none", name |-> <<>>, elems |-> <<>>, srcs |-> <<>>,
     count |-> 0, err |-> FALSE, stmts |-> 0, faulted |-> FALSE, out |-> {},
     pre |-> [n \in Names |-> {}], preTables |-> {}, preNames |-> {}, stop |-> 0]

Call(op, name, elems, srcs, count, err, stmts, faulted, out) ==
    [op |-> op, name |-> name, elems |-> elems, srcs |-> srcs,
     count |-> count, err |-> err, stmts |-> stmts, faulted |-> faulted, out |-> out,
     pre |-> dbRows, preTables |-> dbTables, preNames |-> names, stop |-> 0]

\* no call is in progress on another goroutine
NoConc == [thr |-> <<>>, raced |-> FALSE]

\* no All iteration is in progress
NoScan ==
    [pc |-> "none", name |-> <<>>, expected |-> 0, actual |-> 0, stop |-> 0,
     err |-> FALSE, warned |-> FALSE, out |-> {}]

Idle == open /\ last.op = "none"

Config == UNCHANGED <<fileExists, open, mapper, keepFile, conc, scan>>
Stored == UNCHANGED <<dbTables, dbRows, names>>

(***************************************************************************)
(* Create: a new Bigset with an empty cache on a fresh temporary file, or  *)
(* on the named file when WithFilename is given.                           *)
(***************************************************************************)
Init ==
    /\ mapper \in {"identity", "keyfn"}
    /\ keepFile \in BOOLEAN
    /\ dbTables = {}
    /\ dbRows = [n \in Names |-> {}]
    /\ fileExists = TRUE
    /\ open = TRUE
    /\ names = {}
    /\ last = NoCall
    /\ conc = NoConc
    /\ scan = NoScan

CreateOnNewFile ==
    /\ ~open
    /\ last.op = "none"
    /\ open' = TRUE
    /\ names' = {}
    /\ fileExists' = TRUE
    /\ dbTables' = {}
    /\ dbRows' = [n \in Names |-> {}]
    /\ UNCHANGED <<mapper, keepFile, last, conc, scan>>

\* Create again, with the same options, once the store is closed: the named
\* file as it was left, or a new temporary file
Create ==
    /\ ~open
    /\ last.op = "none"
    /\ open' = TRUE
    /\ names' = {}
    /\ fileExists' = TRUE
    /\ IF keepFile
       THEN UNCHANGED <<dbTables, dbRows>>
       ELSE /\ dbTables' = {}
            /\ dbRows' = [n \in Names |-> {}]
    /\ UNCHANGED <<mapper, keepFile, last, conc, scan>>

CloseAlwaysRemoves(fault) ==
    /\ UNCHANGED <<names, mapper, keepFile, conc, scan>>
    /\ IF fault = 1
       THEN /\ last' = Call("Close", <<>>, <<>>, <<>>, 0, TRUE, 1, TRUE, {})
            /\ UNCHANGED <<dbTables, dbRows, fileExists, open>>
       ELSE /\ open' = FALSE
            /\ last' = Call("Close", <<>>, <<>>, <<>>, 0, FALSE, 2, FALSE, {})
            /\ fileExists' = FALSE
            /\ dbTables' = {}
            /\ dbRows' = [n \in Names |-> {}]

\* Close: db.Close() (call 1), then os.Remove(filename) (call 2) unless
\* keepFile.  A file that could not be removed is still never opened again:
\* the next Create without WithFilename makes its own temporary file.
Close(fault) ==
    /\ UNCHANGED <<names, mapper, keepFile, conc, scan>>
    /\ IF fault = 1
       THEN /\ last' = Call("Close", <<>>, <<>>, <<>>, 0, TRUE, 1, TRUE, {})
            /\ UNCHANGED <<dbTables, dbRows, fileExists, open>>
       ELSE /\ open' = FALSE
            /\ IF keepFile
               THEN /\ last' = Call("Close", <<>>, <<>>, <<>>, 0, FALSE, 1, FALSE, {})
                    /\ UNCHANGED <<dbTables, dbRows, fileExists>>
               ELSE IF fault = 2
               THEN /\ last' = Call("Close", <<>>, <<>>, <<>>, 0, TRUE, 2, TRUE, {})
                    /\ UNCHANGED <<dbTables, dbRows, fileExists>>
               ELSE /\ last' = Call("Close", <<>>, <<>>, <<>>, 0, FALSE, 2, FALSE, {})
                    /\ fileExists' = FALSE
                    /\ dbTables' = {}
                    /\ dbRows' = [n \in Names |-> {}]

(***************************************************************************)
(* add(): verifyNames, initialise unless cached, PrepareContext, the loop. *)
(* Discard() is the same code around its own DELETE statement.             *)
(***************************************************************************)
addSkippingEmptyBatch(kind, name, values, fault) ==
    /\ Config
    /\ IF verifyNames(name, <<>>)
       THEN /\ last' = Call(kind, name, values, <<>>, -1, TRUE, 0, FALSE, {})
            /\ Stored
       ELSE IF Len(values) = 0
       THEN /\ last' = Call(kind, name, values, <<>>, 0, FALSE, 0, FALSE, {})
            /\ Stored
       ELSE LET init == IF name \in names THEN 0 ELSE 1
            IN  IF init = 1 /\ fault = 1
                THEN /\ last' = Call(kind, name, values, <<>>, -1, TRUE, 1, TRUE, {})
                     /\ Stored
                ELSE /\ dbTables' = dbTables \cup {name}
                     /\ names' = names \cup {name}
                     /\ IF fault = init + 1
                        THEN /\ last' = Call(kind, name, values, <<>>, -1, TRUE, init + 1, TRUE, {})
                             /\ UNCHANGED dbRows
                        ELSE \E r \in {ExecLoop(kind, dbRows[name], values, 1, 0, init + 1, fault)} :
                                 /\ dbRows' = [dbRows EXCEPT ![name] = r.t]
                                 /\ last' = Call(kind, name, values, <<>>,
                                                 r.count, r.err, r.stmts, r.faulted, {})

addCachingFailedInitialise(kind, name, values, fault) ==
    /\ Config
    /\ IF verifyNames(name, <<>>)
       THEN /\ last' = Call(kind, name, values, <<>>, -1, TRUE, 0, FALSE, {})
            /\ Stored
       ELSE LET init == IF name \in names THEN 0 ELSE 1
            IN  IF init = 1 /\ fault = 1
                THEN /\ last' = Call(kind, name, values, <<>>, -1, TRUE, 1, TRUE, {})
                     /\ names' = names \cup {name}
                     /\ UNCHANGED <<dbTables, dbRows>>
                ELSE /\ dbTables' = dbTables \cup {name}
                     /\ names' = names \cup {name}
                     /\ IF fault = init + 1
                        THEN /\ last' = Call(kind, name, values, <<>>, -1, TRUE, init + 1, TRUE, {})
                             /\ UNCHANGED dbRows
                        ELSE \E r \in {ExecLoop(kind, dbRows[name], values, 1, 0, init + 1, fault)} :
                                 /\ dbRows' = [dbRows EXCEPT ![name] = r.t]
                                 /\ last' = Call(kind, name, values, <<>>,
                                                 r.count, r.err, r.stmts, r.faulted, {})

add(kind, name, values, fault) ==
    /\ Config
    /\ IF verifyNames(name, <<>>)
       THEN /\ last' = Call(kind, name, values, <<>>, -1, TRUE, 0, FALSE, {})
            /\ Stored
       ELSE LET init == IF name \in names THEN 0 ELSE 1
            IN  IF init = 1 /\ fault = 1
                THEN \* initialise: CREATE TABLE IF NOT EXISTS failed
                     /\ last' = Call(kind, name, values, <<>>, -1, TRUE, 1, TRUE, {})
                     /\ Stored
                ELSE /\ dbTables' = dbTables \cup {name}
                     /\ names' = names \cup {name}
                     /\ IF fault = init + 1
                        THEN \* PrepareContext failed
                             /\ last' = Call(kind, name, values, <<>>, -1, TRUE, init + 1, TRUE, {})
                             /\ UNCHANGED dbRows
                        ELSE \E r \in {ExecLoop(kind, dbRows[name], values, 1, 0, init + 1, fault)} :
                                 /\ dbRows' = [dbRows EXCEPT ![name] = r.t]
                                 /\ last' = Call(kind, name, values, <<>>,
                                                 r.count, r.err, r.stmts, r.faulted, {})

Add == Idle /\ \E name \in Names, values \in ElemSeqs, fault \in Faults :
           add("Add", name, values, fault)

Supersede == Idle /\ \E name \in Names, values \in ElemSeqs, fault \in Faults :
                 add("Supersede", name, values, fault)

Refresh == Idle /\ \E name \in Names, values \in ElemSeqs, fault \in Faults :
               add("Refresh", name, values, fault)

Discard == Idle /\ \E name \in Names, values \in ElemSeqs, fault \in Faults :
               add("Discard", name, values, fault)

(***************************************************************************)
(* Union and Intersection: verifyNames, initialise the target unless       *)
(* cached, return 0 for no source, else one statement through apply().     *)
(***************************************************************************)
Statement(op, tables, rows, target, source) ==
    IF op = "Union" THEN UnionStatement(tables, rows, target, source)
    ELSE IntersectionStatement(tables, rows, target, source)

insertFromReturningEarly(op, target, source, fault) ==
    /\ Config
    /\ IF verifyNames(target, source)
       THEN /\ last' = Call(op, target, <<>>, source, -1, TRUE, 0, FALSE, {})
            /\ Stored
       ELSE IF Len(source) < 1
       THEN /\ last' = Call(op, target, <<>>, source, 0, FALSE, 0, FALSE, {})
            /\ Stored
       ELSE LET init == IF target \in names THEN 0 ELSE 1
            IN  IF init = 1 /\ fault = 1
                THEN /\ last' = Call(op, target, <<>>, source, -1, TRUE, 1, TRUE, {})
                     /\ Stored
                ELSE /\ dbTables' = dbTables \cup {target}
                     /\ names' = names \cup {target}
                     /\ IF fault = init + 1
                        THEN /\ last' = Call(op, target, <<>>, source, -1, TRUE, init + 1, TRUE, {})
                             /\ UNCHANGED dbRows
                        ELSE \E r \in Statement(op, dbTables \cup {target}, dbRows, target, source) :
                                 /\ dbRows' = [dbRows EXCEPT ![target] = r.t]
                                 /\ last' = Call(op, target, <<>>, source,
                                                 r.count, r.err, init + 1, FALSE, {})

insertFrom(op, target, source, fault) ==
    /\ Config
    /\ IF verifyNames(target, source)
       THEN /\ last' = Call(op, target, <<>>, source, -1, TRUE, 0, FALSE, {})
            /\ Stored
       ELSE LET init == IF target \in names THEN 0 ELSE 1
            IN  IF init = 1 /\ fault = 1
                THEN /\ last' = Call(op, target, <<>>, source, -1, TRUE, 1, TRUE, {})
                     /\ Stored
                ELSE /\ dbTables' = dbTables \cup {target}
                     /\ names' = names \cup {target}
                     /\ IF Len(source) < 1
                        THEN /\ last' = Call(op, target, <<>>, source, 0, FALSE, init, FALSE, {})
                             /\ UNCHANGED dbRows
                        ELSE IF fault = init + 1
                        THEN /\ last' = Call(op, target, <<>>, source, -1, TRUE, init + 1, TRUE, {})
                             /\ UNCHANGED dbRows
                        ELSE \E r \in Statement(op, dbTables \cup {target}, dbRows, target, source) :
                                 /\ dbRows' = [dbRows EXCEPT ![target] = r.t]
                                 /\ last' = Call(op, target, <<>>, source,
                                                 r.count, r.err, init + 1, FALSE, {})

Union == Idle /\ \E target \in Names, source \in SourceSeqs, fault \in Faults :
             insertFrom("Union", target, source, fault)

Intersection == Idle /\ \E target \in Names, source \in SourceSeqs, fault \in Faults :
                    insertFrom("Intersection", target, source, fault)

(***************************************************************************)
(* Subtract: verifyNames; a target that is not cached is initialised and   *)
(* the call returns 0; else one DELETE per source.                         *)
(***************************************************************************)
subtractScanning(target, source, fault) ==
    /\ Config
    /\ IF verifyNames(target, source)
       THEN /\ last' = Call("Subtract", target, <<>>, source, -1, TRUE, 0, FALSE, {})
            /\ Stored
       ELSE LET init == IF target \in names THEN 0 ELSE 1
            IN  IF init = 1 /\ fault = 1
                THEN /\ last' = Call("Subtract", target, <<>>, source, -1, TRUE, 1, TRUE, {})
                     /\ Stored
                ELSE \E r \in {SubtractLoop(dbTables \cup {target}, dbRows, target,
                                            dbRows[target], source, 1, 0, init, fault)} :
                         /\ dbTables' = dbTables \cup {target}
                         /\ names' = names \cup {target}
                         /\ dbRows' = [dbRows EXCEPT ![target] = r.t]
                         /\ last' = Call("Subtract", target, <<>>, source,
                                         r.count, r.err, r.stmts, r.faulted, {})

subtractFromSources(target, source, fault) ==
    /\ Config
    /\ IF verifyNames(target, source)
       THEN /\ last' = Call("Subtract", target, <<>>, source, -1, TRUE, 0, FALSE, {})
            /\ Stored
       ELSE IF target \notin names
       THEN IF fault = 1
            THEN /\ last' = Call("Subtract", target, <<>>, source, -1, TRUE, 1, TRUE, {})
                 /\ Stored
            ELSE /\ dbTables' = dbTables \cup {target}
                 /\ names' = names \cup {target}
                 /\ last' = Call("Subtract", target, <<>>, source, 0, FALSE, 1, FALSE, {})
                 /\ UNCHANGED dbRows
       ELSE \E r \in {SubtractLoop(dbTables, dbRows, target, dbRows[target], source, 1, 0, 0, fault)} :
                /\ dbRows' = [n \in Names |->
                                 IF n = target THEN r.t
                                 ELSE IF n \in SourcesOf(source)
                                 THEN {x \in dbRows[n] : x.k \notin Keys(dbRows[target])}
                                 ELSE dbRows[n]]
                /\ last' = Call("Subtract", target, <<>>, source,
                                r.count, r.err, r.stmts, r.faulted, {})
                /\ UNCHANGED <<dbTables, names>>

subtract(target, source, fault) ==
    /\ Config
    /\ IF verifyNames(target, source)
       THEN /\ last' = Call("Subtract", target, <<>>, source, -1, TRUE, 0, FALSE, {})
            /\ Stored
       ELSE IF target \notin names
       THEN IF fault = 1
            THEN /\ last' = Call("Subtract", target, <<>>, source, -1, TRUE, 1, TRUE, {})
                 /\ Stored
            ELSE /\ dbTables' = dbTables \cup {target}
                 /\ names' = names \cup {target}
                 /\ last' = Call("Subtract", target, <<>>, source, 0, FALSE, 1, FALSE, {})
                 /\ UNCHANGED dbRows
       ELSE \E r \in {SubtractLoop(dbTables, dbRows, target, dbRows[target], source, 1, 0, 0, fault)} :
                /\ dbRows' = [dbRows EXCEPT ![target] = r.t]
                /\ last' = Call("Subtract", target, <<>>, source,
                                r.count, r.err, r.stmts, r.faulted, {})
                /\ UNCHANGED <<dbTables, names>>

Subtract == Idle /\ \E target \in Names, source \in SourceSeqs, fault \in Faults :
                subtract(target, source, fault)

(***************************************************************************)
(* The readers.  None initialises a table: a SELECT on a name without one  *)
(* is "no such table".                                                     *)
(***************************************************************************)
\* SELECT COUNT(*) FROM t, scanned into result
SelectCount(tables, rows, name) ==
    IF name \notin tables THEN [count |-> -1, err |-> TRUE]
    ELSE [count |-> Cardinality(rows[name]), err |-> FALSE]

cardinalityInitialising(name, fault) ==
    /\ Config
    /\ IF verifyNames(name, <<>>)
       THEN /\ last' = Call("Cardinality", name, <<>>, <<>>, -1, TRUE, 0, FALSE, {})
            /\ Stored
       ELSE IF fault = 1
       THEN /\ last' = Call("Cardinality", name, <<>>, <<>>, -1, TRUE, 1, TRUE, {})
            /\ Stored
       ELSE /\ dbTables' = dbTables \cup {name}
            /\ names' = names \cup {name}
            /\ UNCHANGED dbRows
            /\ last' = Call("Cardinality", name, <<>>, <<>>,
                            Cardinality(dbRows[name]), FALSE, 2, FALSE, {})

\* Cardinality: SELECT COUNT(*)
cardinality(name, fault) ==
    /\ Config
    /\ Stored
    /\ IF verifyNames(name, <<>>)
       THEN last' = Call("Cardinality", name, <<>>, <<>>, -1, TRUE, 0, FALSE, {})
       ELSE IF fault = 1
       THEN last' = Call("Cardinality", name, <<>>, <<>>, -1, TRUE, 1, TRUE, {})
       ELSE LET c == SelectCount(dbTables, dbRows, name)
            IN  last' = Call("Cardinality", name, <<>>, <<>>, c.count, c.err, 1, FALSE, {})

CardinalityOp == Idle /\ \E name \in Names, fault \in Faults : cardinality(name, fault)

(***************************************************************************)
(* A row loop `for rows.Next() { rows.Scan(..) .. }` whose context is      *)
(* cancelled while rows remain unread, or while Next waits on an empty     *)
(* result: `seen` are the rows handled before the cancellation closed the  *)
(* result set.  Either Next then returns false and the loop ends as it     *)
(* does after the last row (err = FALSE: the code does not ask rows.Err()),*)
(* or Next had returned true already and it is Scan that fails.            *)
(***************************************************************************)
ScanCuts(rows) ==
    {[seen |-> S, err |-> e] :
        S \in {S \in SUBSET rows : S # rows \/ rows = {}},
        e \in {e \in BOOLEAN : e => rows # {}}}

\* RetrieveIfExists: the mapper on the probe, SELECT v WHERE k = ?, the first
\* row decoded; `out` holds the element returned, if any.  With fault = 2 the
\* context is cancelled before the first row is read.
retrieveIfExists(name, t, fault) ==
    /\ Config
    /\ Stored
    /\ IF verifyNames(name, <<>>)
       THEN last' = Call("RetrieveIfExists", name, <<t>>, <<>>, 0, TRUE, 0, FALSE, {})
       ELSE IF Mapper(t).err
       THEN last' = Call("RetrieveIfExists", name, <<t>>, <<>>, 0, TRUE, 0, FALSE, {})
       ELSE IF fault = 1
       THEN last' = Call("RetrieveIfExists", name, <<t>>, <<>>, 0, TRUE, 1, TRUE, {})
       ELSE IF name \notin dbTables
       THEN last' = Call("RetrieveIfExists", name, <<t>>, <<>>, 0, TRUE, 1, FALSE, {})
       ELSE LET found == SelectByKey(dbRows[name], Mapper(t).k)
            IN  IF fault = 2
                THEN \E cut \in ScanCuts(found) :
                         last' = Call("RetrieveIfExists", name, <<t>>, <<>>,
                                      0, cut.err, 1, TRUE, {})
                ELSE IF found = {}
                THEN last' = Call("RetrieveIfExists", name, <<t>>, <<>>, 0, FALSE, 1, FALSE, {})
                ELSE \E v \in found :
                         last' = Call("RetrieveIfExists", name, <<t>>, <<>>,
                                      1, FALSE, 1, FALSE, {Unmarshal(v)})

RetrieveIfExists == Idle /\ \E name \in Names, t \in Elems, fault \in Faults :
                        retrieveIfExists(name, t, fault)

eachVisitingAll(name, stop, fault) ==
    /\ Config
    /\ Stored
    /\ IF verifyNames(name, <<>>)
       THEN last' = Call("Each", name, <<>>, <<>>, 0, TRUE, 0, FALSE, {})
       ELSE IF fault = 1
       THEN last' = Call("Each", name, <<>>, <<>>, 0, TRUE, 1, TRUE, {})
       ELSE IF name \notin dbTables
       THEN last' = Call("Each", name, <<>>, <<>>, 0, TRUE, 1, FALSE, {})
       ELSE IF stop = 0 \/ stop > Cardinality(dbRows[name])
       THEN last' = Call("Each", name, <<>>, <<>>, Cardinality(dbRows[name]), FALSE, 1, FALSE,
                         {Unmarshal(r.v) : r \in dbRows[name]})
       ELSE last' = [Call("Each", name, <<>>, <<>>, Cardinality(dbRows[name]), TRUE, 1, FALSE,
                          {Unmarshal(r.v) : r \in dbRows[name]}) EXCEPT !.stop = stop]

\* Each: SELECT v, then for each row the decode into the buffer and the
\* visitor; the visitor call numbered `stop` returns an error.  `out` holds
\* the elements the visitor saw, `count` its calls, `stop` the number of the
\* call whose error ended the loop (0 when no call returned one).  With
\* fault = 2 the context is cancelled during the loop, before that call.
each(name, stop, fault) ==
    /\ Config
    /\ Stored
    /\ IF verifyNames(name, <<>>)
       THEN last' = Call("Each", name, <<>>, <<>>, 0, TRUE, 0, FALSE, {})
       ELSE IF fault = 1
       THEN last' = Call("Each", name, <<>>, <<>>, 0, TRUE, 1, TRUE, {})
       ELSE IF name \notin dbTables
       THEN last' = Call("Each", name, <<>>, <<>>, 0, TRUE, 1, FALSE, {})
       ELSE IF fault = 2 /\ (stop = 0 \/ stop >= Cardinality(dbRows[name]))
       THEN \E cut \in ScanCuts(dbRows[name]) :
                last' = Call("Each", name, <<>>, <<>>, Cardinality(cut.seen), cut.err, 1, TRUE,
                             {Unmarshal(r.v) : r \in cut.seen})
       ELSE IF stop = 0 \/ stop > Cardinality(dbRows[name])
       THEN last' = Call("Each", name, <<>>, <<>>, Cardinality(dbRows[name]), FALSE, 1, FALSE,
                         {Unmarshal(r.v) : r \in dbRows[name]})
       ELSE \E seen \in {S \in SUBSET dbRows[name] : Cardinality(S) = stop} :
                last' = [Call("Each", name, <<>>, <<>>, stop, TRUE, 1, FALSE,
                              {Unmarshal(r.v) : r \in seen}) EXCEPT !.stop = stop]

Each == Idle /\ \E name \in Names, stop \in VisitFaults, fault \in Faults :
            each(name, stop, fault)

\* Get: CollectError over All, which is verifyNames, Cardinality, then the
\* SELECT v and the decode of every row; `out` holds the elements returned.
\* With fault = 3 the context is cancelled during the row loop.
get(name, fault) ==
    /\ Config
    /\ Stored
    /\ IF verifyNames(name, <<>>)
       THEN last' = Call("Get", name, <<>>, <<>>, 0, TRUE, 0, FALSE, {})
       ELSE IF fault = 1
       THEN last' = Call("Get", name, <<>>, <<>>, 0, TRUE, 1, TRUE, {})
       ELSE IF name \notin dbTables
       THEN last' = Call("Get", name, <<>>, <<>>, 0, TRUE, 1, FALSE, {})
       ELSE IF fault = 2
       THEN last' = Call("Get", name, <<>>, <<>>, 0, TRUE, 2, TRUE, {})
       ELSE IF fault = 3
       THEN \E cut \in ScanCuts(dbRows[name]) :
                IF cut.err
                THEN last' = Call("Get", name, <<>>, <<>>, 0, TRUE, 2, TRUE, {})
                ELSE last' = Call("Get", name, <<>>, <<>>, Cardinality(cut.seen), FALSE, 2, TRUE,
                                  {Unmarshal(r.v) : r \in cut.seen})
       ELSE last' = Call("Get", name, <<>>, <<>>, Cardinality(dbRows[name]), FALSE, 2, FALSE,
                         {Unmarshal(r.v) : r \in dbRows[name]})

Get == Idle /\ \E name \in Names, fault \in Faults : get(name, fault)

CloseOp == Idle /\ \E fault \in Faults : Close(fault)

(***************************************************************************)
(* The caller takes the returned values; the next call may begin.          *)
(***************************************************************************)
Return ==
    /\ last.op # "none"
    /\ last' = NoCall
    /\ UNCHANGED <<dbTables, dbRows, fileExists, open, names, mapper, keepFile, conc, scan>>

Next ==
    \/ Add
    \/ Supersede
    \/ Refresh
    \/ Discard
    \/ Union
    \/ Intersection
    \/ Subtract
    \/ CardinalityOp
    \/ RetrieveIfExists
    \/ Each
    \/ Get
    \/ CloseOp
    \/ Create
    \/ Return

Spec == Init /\ [][Next]_vars

(***************************************************************************)
(* What the last call was given and what it met.                           *)
(***************************************************************************)
Batched == {"Add", "Supersede", "Refresh", "Discard"}
Algebra == {"Union", "Intersection", "Subtract"}
Readers == {"Cardinality", "Each", "Get", "RetrieveIfExists"}
Counting == Batched \cup Algebra \cup {"Cardinality"}

Ok(op) == last.op = op /\ ~last.err

\* the target's rows before and after the call
T0 == last.pre[last.name]
T1 == dbRows[last.name]

ElemIdx == 1..Len(last.elems)
ElemKey(i) == Mapper(last.elems[i]).k
ElemKeys == {ElemKey(i) : i \in ElemIdx}
\* the payload of the last element of the batch that carries key k
LastPayload(k) ==
    LET i == CHOOSE j \in ElemIdx : ElemKey(j) = k /\ \A h \in ElemIdx : h > j => ElemKey(h) # k
    IN  Mapper(last.elems[i]).v

SrcIdx == 1..Len(last.srcs)
SrcRows(i) == last.pre[last.srcs[i]]
SrcKeys(i) == Keys(SrcRows(i))
NameIsBad == ContainsQuote(last.name) \/ \E i \in SrcIdx : ContainsQuote(last.srcs[i])
\* every source has a table when the statement runs (the target has one by then)
SourcesExist == \A i \in SrcIdx : last.srcs[i] \in last.preTables \cup {last.name}

(***************************************************************************)
(* C1: when Add, Supersede, Refresh or Discard returns an error part-way   *)
(* through its elements (the mapper fails on one, or the store fails on a  *)
(* statement), the target's rows are what they were before the call.       *)
(* The code runs each statement outside any transaction; this does not     *)
(* hold.                                                                   *)
(***************************************************************************)
C1_FailedBatchLeavesNoEffect ==
    (last.op \in Batched /\ last.err /\ ~NameIsBad) => T1 = T0

(***************************************************************************)
(* C2: a successful Add inserts one row for each distinct key of its       *)
(* elements that the set did not hold, keeps every row the set held, and   *)
(* returns the number of rows inserted; the set then has one row per key   *)
(* of (old keys united with the elements' keys), and a batch with a        *)
(* repeated key returns less than its length.                              *)
(***************************************************************************)
C2_AddInsertsAbsentKeys ==
    Ok("Add") =>
        /\ T0 \subseteq T1
        /\ Keys(T1) = Keys(T0) \cup ElemKeys
        /\ Cardinality(T1) = Cardinality(Keys(T0) \cup ElemKeys)
        /\ \A r \in T1 \ T0 : \E i \in ElemIdx : r = Row(ElemKey(i), Mapper(last.elems[i]).v)
        /\ last.count = Cardinality(T1 \ T0)
        /\ (Cardinality(ElemKeys) < Len(last.elems) => last.count < Len(last.elems))

\* two different elements with one key, added to an empty set: one row, count 1
C2_Witness ==
    /\ Ok("Add")
    /\ Len(last.elems) = 2
    /\ last.elems[1] # last.elems[2]
    /\ Cardinality(ElemKeys) = 1
    /\ T0 = {}
    /\ last.count = 1

(***************************************************************************)
(* C3: after a successful Union with at least one source the target's keys *)
(* are its old keys united with every source's keys, every row it held is  *)
(* kept with its payload, and the count is the number of keys inserted; a  *)
(* source key the target already holds is skipped and is no error: a Union *)
(* of valid names whose sources exist fails only if the store fails.       *)
(***************************************************************************)
C3_UnionAddsSourceKeys ==
    /\ (Ok("Union") /\ Len(last.srcs) >= 1) =>
           /\ Keys(T1) = Keys(T0) \cup UNION {SrcKeys(i) : i \in SrcIdx}
           /\ T0 \subseteq T1
           /\ T1 \ T0 \subseteq UNION {SrcRows(i) : i \in SrcIdx}
           /\ last.count = Cardinality(Keys(T1) \ Keys(T0))
           /\ last.count = Cardinality(T1 \ T0)
    /\ (last.op = "Union" /\ ~NameIsBad /\ SourcesExist /\ ~last.faulted) => ~last.err

\* a Union that skipped a key the target held and inserted another
C3_Witness ==
    /\ Ok("Union")
    /\ Len(last.srcs) = 2
    /\ \E i \in SrcIdx : SrcKeys(i) \cap Keys(T0) # {}
    /\ last.count >= 1
    /\ T0 # {}

(***************************************************************************)
(* C4: an Intersection of one or more existing sources succeeds; the       *)
(* target keeps its rows and gains one row, with the first source's        *)
(* payload, for each key that is in every source and was not in the        *)
(* target; the count is the number of rows inserted.  The statement the    *)
(* code builds for a single source does not parse; this does not hold.     *)
(***************************************************************************)
C4_IntersectionAddsCommonKeys ==
    (last.op = "Intersection" /\ Len(last.srcs) >= 1
        /\ ~NameIsBad /\ SourcesExist /\ ~last.faulted) =>
        /\ ~last.err
        /\ T0 \subseteq T1
        /\ T1 \ T0 = {r \in SrcRows(1) :
                         /\ r.k \notin Keys(T0)
                         /\ \A i \in SrcIdx : r.k \in SrcKeys(i)}
        /\ last.count = Cardinality(T1 \ T0)

(***************************************************************************)
(* C5: after a successful Subtract on a set that exists, the set holds     *)
(* exactly its earlier rows whose key is in no source, and the count is    *)
(* the number of rows removed.  A set that exists in the file but is not   *)
(* in b.names is left as it was and 0 is returned; this does not hold.     *)
(***************************************************************************)
C5_SubtractRemovesSourceKeys ==
    (Ok("Subtract") /\ last.name \in last.preTables) =>
        /\ T1 = {r \in T0 : r.k \notin UNION {SrcKeys(i) : i \in SrcIdx}}
        /\ last.count = Cardinality(T0 \ T1)
        /\ Cardinality(T1) <= Cardinality(T0)

(***************************************************************************)
(* C6: after a successful Supersede every key of the elements is in the    *)
(* set with the payload of the last element carrying it, rows with other   *)
(* keys are unchanged, and superseding keys the set already held leaves    *)
(* its cardinality unchanged.                                              *)
(***************************************************************************)
C6_SupersedeOverwrites ==
    Ok("Supersede") =>
        /\ \A k \in ElemKeys : Row(k, LastPayload(k)) \in T1
        /\ {r \in T1 : r.k \notin ElemKeys} = {r \in T0 : r.k \notin ElemKeys}
        /\ Cardinality(T1) = Cardinality(Keys(T0) \cup ElemKeys)
        /\ (ElemKeys \subseteq Keys(T0) => Cardinality(T1) = Cardinality(T0))

\* a stored payload replaced by another one under the same key
C6_Witness ==
    /\ Ok("Supersede")
    /\ Len(last.elems) >= 1
    /\ ElemKeys \subseteq Keys(T0)
    /\ T1 # T0
    /\ Cardinality(T1) = Cardinality(T0)

(***************************************************************************)
(* C7: a successful Refresh overwrites the payload of each key of the      *)
(* elements that the set holds, inserts nothing for a key it does not hold *)
(* (the cardinality is unchanged and a retrieval by that key finds no      *)
(* row), and returns the number of elements whose key the set held.        *)
(***************************************************************************)
C7_RefreshUpdatesPresentKeys ==
    Ok("Refresh") =>
        /\ Keys(T1) = Keys(T0)
        /\ Cardinality(T1) = Cardinality(T0)
        /\ \A k \in ElemKeys \cap Keys(T0) : Row(k, LastPayload(k)) \in T1
        /\ {r \in T1 : r.k \notin ElemKeys} = {r \in T0 : r.k \notin ElemKeys}
        /\ \A i \in ElemIdx : ElemKey(i) \notin Keys(T0) => SelectByKey(T1, ElemKey(i)) = {}
        /\ last.count = Cardinality({i \in ElemIdx : ElemKey(i) \in Keys(T0)})

\* a Refresh of one key the set held and one it did not
C7_Witness ==
    /\ Ok("Refresh")
    /\ \E i \in ElemIdx : ElemKey(i) \in Keys(T0)
    /\ \E i \in ElemIdx : ElemKey(i) \notin Keys(T0)
    /\ last.count = 1

(***************************************************************************)
(* C8: a successful Discard removes exactly the rows whose key is the key  *)
(* of one of the elements, returns the number of rows removed, and the     *)
(* same Discard called again at once returns 0.                            *)
(***************************************************************************)
C8_DiscardRemovesKeys ==
    Ok("Discard") =>
        /\ T1 = {r \in T0 : r.k \notin ElemKeys}
        /\ last.count = Cardinality(T0 \ T1)
        /\ LET again == ExecLoop("Discard", T1, last.elems, 1, 0, 1, 0)
           IN  ~again.err /\ again.count = 0 /\ again.t = T1

\* two elements named, one row removed: a repeated or an absent key counted 0
C8_Witness ==
    /\ Ok("Discard")
    /\ Len(last.elems) = 2
    /\ last.count = 1
    /\ T1 # T0

(***************************************************************************)
(* C9: an operation called with a name that holds a double quote returns   *)
(* an error (and -1 where it returns a count) before any call to the       *)
(* backing store: no table, no row and no entry of b.names changes.        *)
(***************************************************************************)
C9_BadNameRejectedFirst ==
    (last.op \in Batched \cup Algebra \cup Readers /\ NameIsBad) =>
        /\ last.err
        /\ (last.op \in Counting => last.count = -1)
        /\ last.stmts = 0
        /\ last.out = {}
        /\ dbTables = last.preTables
        /\ dbRows = last.pre
        /\ names = last.preNames

\* an Add of encodable elements to a set whose name holds a double quote
C9_Witness ==
    /\ last.op = "Add"
    /\ ContainsQuote(last.name)
    /\ Len(last.elems) >= 1
    /\ \A i \in ElemIdx : ~Mapper(last.elems[i]).err
    /\ last.err

(***************************************************************************)
(* C10: in every state, whatever calls succeeded or failed, each set holds *)
(* at most one row for a key.                                              *)
(***************************************************************************)
C10_KeysUnique ==
    \A n \in Names : Cardinality(dbRows[n]) = Cardinality(Keys(dbRows[n]))

\* a Union whose two sources held different payloads under one key
C10_Witness ==
    /\ Ok("Union")
    /\ Len(last.srcs) = 2
    /\ \E r1 \in SrcRows(1), r2 \in SrcRows(2) : r1.k = r2.k /\ r1.v # r2.v
    /\ last.count = 1

(***************************************************************************)
(* C11: when Union inserts a key that the target did not hold, the one row *)
(* inserted for it carries the payload of the first source, in argument    *)
(* order, that holds the key.  The statement inserts the rows of a UNION   *)
(* in whatever order sqlite produces them; this does not hold.             *)
(***************************************************************************)
\* the first source, in argument order, that holds key k
FirstSourceWith(k) == CHOOSE i \in SrcIdx : k \in SrcKeys(i) /\ \A j \in SrcIdx : j < i => k \notin SrcKeys(j)

C11_UnionFirstSourceWins ==
    (Ok("Union") /\ Len(last.srcs) >= 1) =>
        \A r \in T1 \ T0 :
            /\ Cardinality({x \in T1 : x.k = r.k}) = 1
            /\ r \in SrcRows(FirstSourceWith(r.k))

(***************************************************************************)
(* C12: Cardinality, Each and Get on a set that was never created behave   *)
(* as on an empty set: no error, a count of 0, no element.  Each of them   *)
(* sends its SELECT to a table that does not exist; this does not hold.    *)
(***************************************************************************)
C12_ReadsOfMissingSetAreEmpty ==
    (last.op \in {"Cardinality", "Each", "Get"}
        /\ ~NameIsBad /\ ~last.faulted /\ last.name \notin last.preTables) =>
        /\ ~last.err
        /\ last.count = 0
        /\ last.out = {}

(***************************************************************************)
(* C14: a Union, Intersection or Subtract that returns an error leaves the *)
(* target's rows as they were before the call.  Subtract runs one DELETE   *)
(* per source, each committed on its own; this does not hold.              *)
(***************************************************************************)
C14_FailedAlgebraLeavesNoEffect ==
    (last.op \in Algebra /\ last.err /\ ~NameIsBad) => T1 = T0

(***************************************************************************)
(* C15: RetrieveIfExists returns the element decoded from the payload      *)
(* stored under the probe's key when the set holds that key, and an absent *)
(* result with no error when it does not.  On a set that has no table the  *)
(* SELECT fails; this does not hold.                                       *)
(***************************************************************************)
C15_RetrieveReturnsStored ==
    (last.op = "RetrieveIfExists" /\ ~NameIsBad /\ ~last.faulted
        /\ ~Mapper(last.elems[1]).err) =>
        /\ ~last.err
        /\ last.out = {Unmarshal(r.v) : r \in {x \in T0 : x.k = ElemKey(1)}}
        /\ last.count = Cardinality(last.out)

\* the same, for a set that has a table: this part the code keeps
C15_RetrieveFromExistingSet ==
    (last.op = "RetrieveIfExists" /\ ~NameIsBad /\ ~last.faulted
        /\ ~Mapper(last.elems[1]).err /\ last.name \in last.preTables) =>
        /\ ~last.err
        /\ last.out = {Unmarshal(r.v) : r \in {x \in T0 : x.k = ElemKey(1)}}
        /\ last.count = Cardinality(last.out)

(***************************************************************************)
(* C16 as stated: after a successful Add of e, whatever the set held, a    *)
(* retrieval by e returns a value with e's key and e's serialization as    *)
(* its payload.  Add skips a key the set holds, so under a key function    *)
(* the payload found may be an older one; this does not hold.              *)
(***************************************************************************)
\* what RetrieveIfExists would now decode for element i of the batch
Retrieved(i) == {Unmarshal(v) : v \in SelectByKey(T1, ElemKey(i))}
\* the payload of the first element of the batch that carries key k
FirstPayload(k) ==
    LET i == CHOOSE j \in ElemIdx : ElemKey(j) = k /\ \A h \in ElemIdx : h < j => ElemKey(h) # k
    IN  Mapper(last.elems[i]).v

C16_RoundTripAsStated ==
    (Ok("Add") /\ Len(last.elems) = 1) =>
        /\ Retrieved(1) # {}
        /\ \A x \in Retrieved(1) :
               /\ Mapper(x).k = ElemKey(1)
               /\ Mapper(x).v = Mapper(last.elems[1]).v

(***************************************************************************)
(* C16, amended: after a successful Add, a retrieval by any element e of   *)
(* the batch returns exactly one value, whose key is e's key; its payload  *)
(* is the one the set stored under that key before the Add if it held the  *)
(* key, and otherwise the serialization of the first element of the batch  *)
(* with that key (e itself for a single element, and always e's own under  *)
(* the default mapper).                                                    *)
(***************************************************************************)
C16_RoundTrip ==
    Ok("Add") =>
        \A i \in ElemIdx :
            /\ Cardinality(Retrieved(i)) = 1
            /\ \A x \in Retrieved(i) :
                   /\ Mapper(x).k = ElemKey(i)
                   /\ IF ElemKey(i) \in Keys(T0)
                      THEN Row(ElemKey(i), Marshal(x)) \in T0
                      ELSE Marshal(x) = FirstPayload(ElemKey(i))
                   /\ (mapper = "identity" => Marshal(x) = Mapper(last.elems[i]).v)

\* an Add of e to a set that held e's key under another payload
C16_Witness ==
    /\ Ok("Add")
    /\ Len(last.elems) = 1
    /\ ElemKey(1) \in Keys(T0)
    /\ Row(ElemKey(1), Mapper(last.elems[1]).v) \notin T1

(***************************************************************************)
(* C17: a successful Supersede returns the number of its elements: each    *)
(* one is a row written, whether it inserted a key, overwrote another      *)
(* payload or overwrote a payload equal to its own.                        *)
(***************************************************************************)
C17_SupersedeCountsEveryElement ==
    Ok("Supersede") => last.count = Len(last.elems)

\* two elements superseded by themselves: nothing changes, 2 is returned
C17_Witness ==
    /\ Ok("Supersede")
    /\ Len(last.elems) = 2
    /\ \A i \in ElemIdx : Row(ElemKey(i), Mapper(last.elems[i]).v) \in T0
    /\ T1 = T0
    /\ last.count = 2

(***************************************************************************)
(* C20: a successful Close removes the file exactly when the store was     *)
(* created without WithFilename; the file of a store created with it is    *)
(* never removed.                                                          *)
(***************************************************************************)
C20_CloseRemovesOnlyTemporaryFile ==
    /\ Ok("Close") => (fileExists <=> keepFile)
    /\ keepFile => fileExists

\* a store on a named file, closed with sets in it
C20_Witness ==
    /\ Ok("Close")
    /\ keepFile
    /\ fileExists
    /\ ~open
    /\ \E n \in dbTables : dbRows[n] # {}

(***************************************************************************)
(* C19: with WithFilename, every set's rows after Close and Create on the  *)
(* same file are what they were before Close: no step into, within or out  *)
(* of the closed state touches the file, so an element added before is     *)
(* found by RetrieveIfExists (its context not cancelled), adding it again  *)
(* returns 0, and a batch added after the reopening returns the number of  *)
(* keys the file did not hold.                                             *)
(***************************************************************************)
\* the call met a set that the file holds and this handle has not yet cached
AfterReopen == last.name \in last.preTables /\ last.name \notin last.preNames

C19_PersistsAcrossReopen ==
    /\ [][(keepFile /\ (~open \/ ~open')) => UNCHANGED <<dbTables, dbRows>>]_vars
    /\ []((Ok("Add") /\ AfterReopen) =>
             /\ T0 \subseteq T1
             /\ last.count = Cardinality(ElemKeys \ Keys(T0))
             /\ (ElemKeys \subseteq Keys(T0) => last.count = 0 /\ T1 = T0))
    /\ []((Ok("RetrieveIfExists") /\ ~last.faulted /\ AfterReopen /\ ElemKey(1) \in Keys(T0)) =>
             last.out = {Unmarshal(v) : v \in SelectByKey(T0, ElemKey(1))})

\* a batch added after the reopening: one key was stored before, one is new
C19_Witness ==
    /\ keepFile
    /\ Ok("Add")
    /\ AfterReopen
    /\ Len(last.elems) = 2
    /\ ElemKeys \cap Keys(T0) # {}
    /\ last.count = 1

(***************************************************************************)
(* C18: b.names is advisory: a call on a set the file holds returns the    *)
(* count and leaves the rows that the same call returns and leaves when    *)
(* the set's name is in b.names.  Subtract returns 0 and deletes nothing   *)
(* when the name is not in b.names; this does not hold.                    *)
(***************************************************************************)
\* the call's result is one that the code path for a cached name produces
AsWhenCached ==
    CASE last.op \in Batched ->
             LET r == ExecLoop(last.op, T0, last.elems, 1, 0, 0, 0)
             IN  T1 = r.t /\ last.count = r.count /\ last.err = r.err
      [] last.op \in {"Union", "Intersection"} ->
             IF Len(last.srcs) < 1
             THEN T1 = T0 /\ last.count = 0 /\ ~last.err
             ELSE \E r \in Statement(last.op, last.preTables, last.pre, last.name, last.srcs) :
                      T1 = r.t /\ last.count = r.count /\ last.err = r.err
      [] last.op = "Subtract" ->
             LET r == SubtractLoop(last.preTables, last.pre, last.name, T0, last.srcs, 1, 0, 0, 0)
             IN  T1 = r.t /\ last.count = r.count /\ last.err = r.err

C18_CacheIsAdvisory ==
    (last.op \in Batched \cup Algebra /\ ~NameIsBad /\ ~last.faulted
        /\ last.name \in last.preTables) => AsWhenCached

(***************************************************************************)
(* Two goroutines, each in one batched call on the same Bigset, on         *)
(* different set names.  A call is the steps of add() (or Discard()) in    *)
(* program order; the two calls interleave freely: the code takes no lock. *)
(*   check    if _, exists := b.names[name]          (a map read)          *)
(*   create   initialise: CREATE TABLE IF NOT EXISTS                       *)
(*   cache    initialise: b.names[name] = struct{}{}  (a map write)        *)
(*   prepare  PrepareContext                                               *)
(*   loop     the mapper and the statement, once per value                 *)
(* A write of the Go map b.names that can run at the same time as another  *)
(* access of it is a data race: the runtime may abort the program, an      *)
(* entry may be lost, a read may see anything.                             *)
(***************************************************************************)
Threads == {1, 2}

\* the batches the two goroutines pass: encodable values, at least one
ConcElemSeqs == SeqsUpTo(GoodElems, MaxElems) \ {<<>>}

Started(op, name, values) ==
    [op |-> op, name |-> name, elems |-> values, pc |-> "check", i |-> 1, result |-> 0]

ConcIdle == UNCHANGED <<fileExists, open, mapper, keepFile, last, scan>>

\* Create, then sets that earlier calls may have initialised, then two calls
\* begun on different names
InitConc ==
    /\ mapper \in {"identity", "keyfn"}
    /\ scan = NoScan
    /\ keepFile = FALSE
    /\ fileExists = TRUE
    /\ open = TRUE
    /\ last = NoCall
    /\ dbRows = [n \in Names |-> {}]
    /\ \E n1 \in ValidNames : \E n2 \in ValidNames \ {n1} :
           /\ names \in SUBSET {n1, n2}
           /\ dbTables = names
           /\ \E op1 \in {"Add", "Supersede", "Refresh", "Discard"},
                 op2 \in {"Add", "Supersede", "Refresh", "Discard"},
                 v1 \in ConcElemSeqs, v2 \in ConcElemSeqs :
                  conc = [thr   |-> [t \in Threads |-> IF t = 1 THEN Started(op1, n1, v1)
                                                       ELSE Started(op2, n2, v2)],
                          raced |-> FALSE]

At(t, pc) == conc.thr[t].pc = pc
Goto(t, pc) == conc' = [conc EXCEPT !.thr[t].pc = pc]

\* add(): if _, exists := b.names[name]; !exists
CheckNames(t) ==
    /\ At(t, "check")
    /\ Goto(t, IF conc.thr[t].name \in names THEN "prepare" ELSE "create")
    /\ UNCHANGED <<dbTables, dbRows, names>>
    /\ ConcIdle

\* initialise(): ExecContext of CREATE TABLE IF NOT EXISTS
CreateTable(t) ==
    /\ At(t, "create")
    /\ dbTables' = dbTables \cup {conc.thr[t].name}
    /\ Goto(t, "cache")
    /\ UNCHANGED <<dbRows, names>>
    /\ ConcIdle

\* initialise(): b.names[name] = struct{}{}
CacheName(t) ==
    /\ At(t, "cache")
    /\ names' = names \cup {conc.thr[t].name}
    /\ Goto(t, "prepare")
    /\ UNCHANGED <<dbTables, dbRows>>
    /\ ConcIdle

\* add(): PrepareContext
Prepare(t) ==
    /\ At(t, "prepare")
    /\ Goto(t, "loop")
    /\ UNCHANGED <<dbTables, dbRows, names>>
    /\ ConcIdle

\* add(): one turn of the loop, then return result, nil after the last
LoopStep(t) ==
    /\ At(t, "loop")
    /\ LET c == conc.thr[t]
           m == Mapper(c.elems[c.i])
           e == Exec(c.op, dbRows[c.name], m.k, m.v)
       IN  /\ dbRows' = [dbRows EXCEPT ![c.name] = e.t]
           /\ conc' = [conc EXCEPT !.thr[t].i = c.i + 1,
                                   !.thr[t].result = c.result + e.ra,
                                   !.thr[t].pc = IF c.i = Len(c.elems) THEN "done" ELSE "loop"]
    /\ UNCHANGED <<dbTables, names>>
    /\ ConcIdle

\* the map write of w runs while the other goroutine r reads or writes the
\* map: the runtime aborts ("concurrent map writes"), or both accesses take
\* place with any effect on the map and any answer to the read; a name is
\* written by its own goroutine only, so r's may appear once r writes too
Race(w, r) ==
    /\ w # r
    /\ At(w, "cache")
    /\ At(r, "check") \/ At(r, "cache")
    /\ UNCHANGED <<dbTables, dbRows>>
    /\ ConcIdle
    /\ \/ /\ conc' = [conc EXCEPT !.raced = TRUE, !.thr[w].pc = "aborted", !.thr[r].pc = "aborted"]
          /\ UNCHANGED names
       \/ \E kept \in SUBSET (names \cup {conc.thr[w].name}
                                      \cup IF At(r, "cache") THEN {conc.thr[r].name} ELSE {}),
             exists \in BOOLEAN :
              /\ names' = kept
              /\ conc' = [conc EXCEPT !.raced = TRUE,
                                      !.thr[w].pc = "prepare",
                                      !.thr[r].pc = IF At(r, "cache") \/ exists
                                                    THEN "prepare" ELSE "create"]

NextConc ==
    \/ \E t \in Threads : CheckNames(t)
    \/ \E t \in Threads : CreateTable(t)
    \/ \E t \in Threads : CacheName(t)
    \/ \E t \in Threads : Prepare(t)
    \/ \E t \in Threads : LoopStep(t)
    \/ \E w \in Threads, r \in Threads : Race(w, r)

SpecConc == InitConc /\ [][NextConc]_vars

(***************************************************************************)
(* C13: two mutating calls on different sets, run at the same time, are    *)
(* safe: no step of one races with a step of the other on the store's      *)
(* state, and when both have returned each set holds, and each call has    *)
(* returned, what the call alone produces, with both names initialised.    *)
(* Both calls write the unguarded map b.names; this does not hold.         *)
(***************************************************************************)
BothReturned == conc.thr # <<>> /\ \A t \in Threads : At(t, "done")

C13_ConcurrentCallsSafe ==
    /\ ~conc.raced
    /\ BothReturned =>
           \A t \in Threads :
               LET c == conc.thr[t]
                   alone == ExecLoop(c.op, {}, c.elems, 1, 0, 0, 0)
               IN  /\ dbRows[c.name] = alone.t
                   /\ c.result = alone.count
                   /\ c.name \in names
                   /\ c.name \in dbTables

(***************************************************************************)
(* C21: Subtract on a target that has no table creates it empty and        *)
(* returns 0, with no statement sent for any source: CREATE TABLE is the   *)
(* only call made, so even a source without a table is no error.           *)
(***************************************************************************)
C21_SubtractCreatesMissingTarget ==
    (last.op = "Subtract" /\ ~NameIsBad /\ ~last.faulted
        /\ last.name \notin last.preTables) =>
        /\ ~last.err
        /\ last.count = 0
        /\ last.stmts = 1
        /\ dbTables = last.preTables \cup {last.name}
        /\ T1 = {}
        /\ dbRows = last.pre

\* a Subtract naming a source that has no table, on a target that has none
C21_Witness ==
    /\ Ok("Subtract")
    /\ last.name \notin last.preTables
    /\ Len(last.srcs) = 2
    /\ \E i \in SrcIdx : last.srcs[i] \notin dbTables
    /\ \E i \in SrcIdx : SrcRows(i) # {}
    /\ last.name \in dbTables

(***************************************************************************)
(* C22: Union, Intersection and Subtract with a valid target and a source  *)
(* name, at any position, that holds a double quote return -1 and an       *)
(* error; the target is not created and no row of any set changes.         *)
(***************************************************************************)
C22_BadSourceRejected ==
    (last.op \in Algebra /\ ~ContainsQuote(last.name)
        /\ \E i \in SrcIdx : ContainsQuote(last.srcs[i])) =>
        /\ last.err
        /\ last.count = -1
        /\ last.stmts = 0
        /\ dbTables = last.preTables
        /\ names = last.preNames
        /\ dbRows = last.pre

\* a Subtract whose second source is the bad name, on a target not yet created
C22_Witness ==
    /\ last.op = "Subtract"
    /\ ~ContainsQuote(last.name)
    /\ Len(last.srcs) = 2
    /\ ~ContainsQuote(last.srcs[1])
    /\ ContainsQuote(last.srcs[2])
    /\ SrcRows(1) # {}
    /\ last.name \notin dbTables
    /\ last.err

(***************************************************************************)
(* C25: Union(T, A, B) and Union(T, B, A), each from an empty T, leave T   *)
(* with the same keys and return the same count: whatever the statement    *)
(* for the sources in the other order produces agrees with what this call  *)
(* produced, in keys, count and error.                                     *)
(***************************************************************************)
Swapped == <<last.srcs[2], last.srcs[1]>>

C25_UnionCommutesOnKeys ==
    (last.op = "Union" /\ Len(last.srcs) = 2 /\ ~NameIsBad /\ ~last.faulted /\ T0 = {}) =>
        \A r \in UnionStatement(last.preTables \cup {last.name}, last.pre, last.name, Swapped) :
            /\ r.err = last.err
            /\ r.count = last.count
            /\ Keys(r.t) = Keys(T1)

\* two sources, neither empty, that differ in their keys
C25_Witness ==
    /\ Ok("Union")
    /\ Len(last.srcs) = 2
    /\ T0 = {}
    /\ SrcKeys(1) # SrcKeys(2)
    /\ SrcKeys(1) # {}
    /\ SrcKeys(2) # {}
    /\ last.count = 2

(***************************************************************************)
(* C26: Intersection with no source returns 0 and no error, changes no row *)
(* of any set, and creates the target if it had no table.                  *)
(***************************************************************************)
C26_IntersectionOfNothing ==
    (last.op = "Intersection" /\ Len(last.srcs) = 0 /\ ~NameIsBad /\ ~last.faulted) =>
        /\ ~last.err
        /\ last.count = 0
        /\ dbRows = last.pre
        /\ dbTables = last.preTables \cup {last.name}
        /\ last.name \in names

\* the target had no table before the call
C26_Witness ==
    /\ Ok("Intersection")
    /\ Len(last.srcs) = 0
    /\ last.name \notin last.preTables
    /\ last.name \in dbTables
    /\ last.count = 0

(***************************************************************************)
(* C30: when an Add batch has several elements with one key, the payload   *)
(* kept for the key is that of the first of them, or the payload already   *)
(* stored if the set held the key; later elements never change it.         *)
(***************************************************************************)
C30_AddFirstWins ==
    Ok("Add") =>
        \A k \in ElemKeys :
            /\ Cardinality({r \in T1 : r.k = k}) = 1
            /\ IF k \in Keys(T0)
               THEN {r \in T1 : r.k = k} = {r \in T0 : r.k = k}
               ELSE Row(k, FirstPayload(k)) \in T1

\* a batch of two payloads under one new key: the first is kept
C30_Witness ==
    /\ Ok("Add")
    /\ Len(last.elems) = 2
    /\ ElemKey(1) = ElemKey(2)
    /\ Mapper(last.elems[1]).v # Mapper(last.elems[2]).v
    /\ ElemKey(1) \notin Keys(T0)
    /\ Row(ElemKey(1), Mapper(last.elems[1]).v) \in T1

(***************************************************************************)
(* C28: a successful Add, Supersede, Refresh or Discard on a name that has *)
(* no table creates it, even for an empty batch (which returns 0), so that *)
(* a Cardinality that follows returns the set's size and no error.         *)
(***************************************************************************)
C28_BatchedCallCreatesSet ==
    (last.op \in Batched /\ ~last.err /\ last.name \notin last.preTables) =>
        /\ last.name \in dbTables
        /\ last.name \in names
        /\ (Len(last.elems) = 0 => last.count = 0 /\ T1 = {})
        /\ LET c == SelectCount(dbTables, dbRows, last.name)
           IN  ~c.err /\ c.count = Cardinality(T1)

\* an Add of no element to a name that had no table
C28_Witness ==
    /\ Ok("Add")
    /\ Len(last.elems) = 0
    /\ last.name \notin last.preTables
    /\ SelectCount(dbTables, dbRows, last.name) = [count |-> 0, err |-> FALSE]

(***************************************************************************)
(* C24: with no other caller at work, Each calls the visitor once for      *)
(* every row of the set, the buffer holding that row's decoded payload;    *)
(* when a visitor call returns an error Each makes no further call and     *)
(* returns the error.                                                      *)
(***************************************************************************)
Decoded(rows) == {Unmarshal(r.v) : r \in rows}

C24_EachVisitsEveryRowOnce ==
    (last.op = "Each" /\ ~NameIsBad /\ ~last.faulted /\ last.name \in last.preTables) =>
        /\ dbRows = last.pre
        /\ IF last.stop = 0
           THEN /\ ~last.err
                /\ last.count = Cardinality(T0)
                /\ last.out = Decoded(T0)
           ELSE /\ last.err
                /\ last.count = last.stop
                /\ last.out \subseteq Decoded(T0)
                /\ Cardinality(last.out) = last.stop

\* the first of two visitor calls returned an error
C24_Witness ==
    /\ last.op = "Each"
    /\ Cardinality(T0) = 2
    /\ last.stop = 1
    /\ last.err
    /\ last.count = 1

\* every row of a set of two was visited
C24_WitnessAll ==
    /\ Ok("Each")
    /\ Cardinality(T0) = 2
    /\ last.count = 2

(***************************************************************************)
(* C27: Cardinality, Each, Get and RetrieveIfExists create no set and      *)
(* change no set's rows nor the cache of initialised names; a set comes    *)
(* into existence only in a call of Add, Supersede, Refresh, Discard,      *)
(* Union, Intersection or Subtract that names it as its target.            *)
(***************************************************************************)
C27_ReadersCreateNothing ==
    [][ /\ last'.op \in Readers =>
              /\ dbTables' = dbTables
              /\ dbRows' = dbRows
              /\ names' = names
        /\ \A n \in dbTables' \ dbTables :
              /\ last'.op \in Batched \cup Algebra
              /\ last'.name = n ]_vars

\* a reader was called with a good name that has no table, and has none after
C27_Witness ==
    /\ last.op \in Readers
    /\ ~NameIsBad
    /\ ~last.faulted
    /\ last.name \notin last.preTables
    /\ last.name \notin dbTables
    /\ last.name \notin names
    /\ dbTables # {}

(***************************************************************************)
(* C29: a call whose context is cancelled returns an error, having sent no *)
(* statement after the aborted one and none of them twice.  The row loops  *)
(* of Each, All and RetrieveIfExists end on a cancelled result set as they *)
(* do on an exhausted one and rows.Err() is never asked; this does not     *)
(* hold.                                                                   *)
(***************************************************************************)
C29_CancellationReturnsError ==
    last.faulted =>
        /\ last.err
        /\ last.stmts <= MaxFault
        /\ last.op \in Counting => last.count = -1
        /\ last.op \in Readers => last.out = {}

\* the same for the calls that read no rows in a loop
C29_StatementCancellationReturnsError ==
    (last.faulted /\ last.op \notin {"Each", "Get", "RetrieveIfExists"}) =>
        /\ last.err
        /\ last.stmts <= MaxFault
        /\ last.op \in Counting => last.count = -1

(***************************************************************************)
(* All beside another caller.  All samples the size with Cardinality when  *)
(* it is called and reads the rows when the iterator is consumed; calls of *)
(* another goroutine may complete in between.  The consumer takes every    *)
(* row (as Get does) or breaks out of the loop at the row numbered `stop`. *)
(***************************************************************************)
ScanIdle == UNCHANGED <<dbTables, dbRows, fileExists, open, names, mapper, keepFile, last, conc>>

InitScan == Init /\ ~keepFile

\* verifyNames and expectedSize, err := b.Cardinality(ctx, name)
AllSample(name) ==
    /\ open
    /\ scan.pc = "none"
    /\ ScanIdle
    /\ IF verifyNames(name, <<>>)
       THEN scan' = [NoScan EXCEPT !.pc = "done", !.name = name, !.err = TRUE]
       ELSE LET c == SelectCount(dbTables, dbRows, name)
            IN  IF c.err
                THEN scan' = [NoScan EXCEPT !.pc = "done", !.name = name, !.err = TRUE]
                ELSE scan' = [NoScan EXCEPT !.pc = "sampled", !.name = name,
                                            !.expected = c.count]

AllScanWarningWhenSmaller(stop) ==
    /\ scan.pc = "sampled"
    /\ ScanIdle
    /\ LET rows == dbRows[scan.name]
       IN  IF stop \in 1..Cardinality(rows)
           THEN \E seen \in {S \in SUBSET rows : Cardinality(S) = stop} :
                    scan' = [scan EXCEPT !.pc = "done", !.actual = stop - 1, !.stop = stop,
                                         !.out = {Unmarshal(r.v) : r \in seen}]
           ELSE scan' = [scan EXCEPT !.pc = "done", !.actual = Cardinality(rows),
                                     !.out = {Unmarshal(r.v) : r \in rows},
                                     !.warned = (Cardinality(rows) < scan.expected)]

\* the SELECT v, the row loop with actualSize++ after each yield that asks
\* for more, and the warning when the loop has run to the end of the rows
AllScan(stop) ==
    /\ scan.pc = "sampled"
    /\ ScanIdle
    /\ LET rows == dbRows[scan.name]
       IN  IF stop \in 1..Cardinality(rows)
           THEN \E seen \in {S \in SUBSET rows : Cardinality(S) = stop} :
                    scan' = [scan EXCEPT !.pc = "done", !.actual = stop - 1, !.stop = stop,
                                         !.out = {Unmarshal(r.v) : r \in seen}]
           ELSE scan' = [scan EXCEPT !.pc = "done", !.actual = Cardinality(rows),
                                     !.out = {Unmarshal(r.v) : r \in rows},
                                     !.warned = (Cardinality(rows) # scan.expected)]

\* the consumer's loop over the iterator is over
ScanReturn ==
    /\ scan.pc = "done"
    /\ scan' = NoScan
    /\ ScanIdle

\* a call of Add, Supersede or Discard on another goroutine that meets no
\* error, from its beginning to its return: initialise, then the loop
ConcurrentWrite ==
    /\ open
    /\ \E kind \in {"Add", "Supersede", "Discard"}, name \in ValidNames, values \in ConcElemSeqs :
           /\ dbTables' = dbTables \cup {name}
           /\ names' = names \cup {name}
           /\ dbRows' = [dbRows EXCEPT ![name] = ExecLoop(kind, dbRows[name], values, 1, 0, 1, 0).t]
    /\ UNCHANGED <<fileExists, open, mapper, keepFile, last, conc, scan>>

NextScan ==
    \/ \E name \in Names : AllSample(name)
    \/ \E stop \in VisitFaults : AllScan(stop)
    \/ ScanReturn
    \/ ConcurrentWrite

SpecScan == InitScan /\ [][NextScan]_vars

(***************************************************************************)
(* C23: when other calls change the set between the size sample of Get or  *)
(* All and its row scan, the scan that runs to the end of the rows returns *)
(* no error and every row the set then holds, and it emits the warning     *)
(* exactly when the number of rows differs from the sample, be it larger   *)
(* or smaller.                                                             *)
(***************************************************************************)
C23_ScanWarnsOnSizeChange ==
    [][(scan.pc = "sampled" /\ scan'.pc = "done" /\ scan'.stop = 0) =>
          /\ ~scan'.err
          /\ scan'.out = {Unmarshal(r.v) : r \in dbRows[scan.name]}
          /\ scan'.actual = Cardinality(dbRows[scan.name])
          /\ scan'.warned <=> (Cardinality(dbRows[scan.name]) # scan.expected)]_vars

\* a set grew between the sample and the scan, which warned
C23_Witness ==
    /\ scan.pc = "done"
    /\ scan.stop = 0
    /\ scan.actual > scan.expected
    /\ scan.warned
    /\ ~scan.err

\* a set shrank between the sample and the scan, which warned
C23_WitnessSmaller ==
    /\ scan.pc = "done"
    /\ scan.stop = 0
    /\ scan.actual < scan.expected
    /\ scan.warned
    /\ ~scan.err

(***************************************************************************)
(* C31: the count a successful call returns is the change in the target's  *)
(* size: rows gained for Add, Union and Intersection, rows lost for        *)
(* Discard and Subtract.  No successful call returns a negative count, and *)
(* -1 comes only with an error.                                            *)
(***************************************************************************)
C31_CountIsSizeChange ==
    /\ (last.op \in {"Add", "Union", "Intersection"} /\ ~last.err) =>
           last.count = Cardinality(T1) - Cardinality(T0)
    /\ (last.op \in {"Discard", "Subtract"} /\ ~last.err) =>
           last.count = Cardinality(T0) - Cardinality(T1)
    /\ (last.op \in Counting /\ ~last.err) => last.count >= 0
    /\ (last.op \in Counting /\ last.count < 0) => (last.err /\ last.count = -1)

\* a Subtract with two sources removed one of the target's two rows
C31_Witness ==
    /\ Ok("Subtract")
    /\ Len(last.srcs) = 2
    /\ Cardinality(T0) = 2
    /\ Cardinality(T1) = 1
    /\ last.count = 1

\* a Union inserted fewer rows than its sources hold
C31_WitnessUnion ==
    /\ Ok("Union")
    /\ T0 # {}
    /\ last.count = 1
    /\ Cardinality(T1) = 2

(***************************************************************************)
(* C32: a call changes the rows of its target at most: Union, Intersection *)
(* and Subtract leave every source other than the target as it was, and    *)
(* Add, Supersede, Refresh and Discard leave every other set as it was,    *)
(* whether the call succeeds or fails.                                     *)
(***************************************************************************)
C32_OnlyTargetChanges ==
    (last.op \in Batched \cup Algebra) =>
        \A n \in Names \ {last.name} : dbRows[n] = last.pre[n]

\* a Subtract removed rows of the target that a source, another set, holds
C32_Witness ==
    /\ Ok("Subtract")
    /\ T1 # T0
    /\ \E i \in SrcIdx :
          /\ last.srcs[i] # last.name
          /\ dbRows[last.srcs[i]] # {}
          /\ dbRows[last.srcs[i]] = last.pre[last.srcs[i]]

(***************************************************************************)
(* C33: while the store is open every name in b.names has a table in the   *)
(* file: a name is cached only once its CREATE TABLE has succeeded, and a  *)
(* call whose initialise fails caches nothing.                             *)
(***************************************************************************)
\* the call had to initialise its target and the CREATE TABLE failed
InitialiseFailed ==
    /\ last.op \in Batched \cup Algebra
    /\ ~NameIsBad
    /\ last.name \notin last.preNames
    /\ last.faulted
    /\ last.stmts = 1

C33_CachedNamesHaveTables ==
    /\ open => names \subseteq dbTables
    /\ InitialiseFailed => (names = last.preNames /\ dbTables = last.preTables)

\* a failed initialise on a store that has cached another name
C33_Witness ==
    /\ open
    /\ InitialiseFailed
    /\ names # {}
    /\ last.name \notin names
    /\ last.name \notin dbTables

(***************************************************************************)
(* C34: Subtract does not depend on the order of its sources: from the     *)
(* state this call began in, the loop over the two sources in the other    *)
(* order leaves the target with the rows this call left and returns the    *)
(* count this call returned.  When one source has no table the DELETE for  *)
(* the other has or has not run by the time the call fails; this does not  *)
(* hold.                                                                   *)
(***************************************************************************)
SubtractSwapped ==
    SubtractLoop(last.preTables, last.pre, last.name, T0, Swapped, 1, 0, 0, 0)

C34_SubtractIgnoresSourceOrder ==
    (last.op = "Subtract" /\ Len(last.srcs) = 2 /\ ~NameIsBad /\ ~last.faulted
        /\ last.name \in last.preNames) =>
        /\ SubtractSwapped.t = T1
        /\ SubtractSwapped.count = last.count
        /\ SubtractSwapped.err = last.err

\* the same for the calls that return no error
C34_SuccessfulSubtractIgnoresSourceOrder ==
    (Ok("Subtract") /\ Len(last.srcs) = 2 /\ ~last.faulted /\ last.name \in last.preNames) =>
        /\ SubtractSwapped.t = T1
        /\ SubtractSwapped.count = last.count
        /\ ~SubtractSwapped.err

============================================================================
